---- MODULE Spec2Model ----
(***************************************************************************)
(* State-machine model of the page cache of rust-mini-rdbms (src/main.rs): *)
(* DiskManager (heap file of fixed-size pages), BufferPool (frames and the *)
(* clock-sweep evict) and BufferPoolManager::fetch_page.  Handles returned *)
(* by fetch_page are the external Rc<Buffer> clones; their holders may     *)
(* write the page bytes, set is_dirty and drop the handle.                 *)
(*                                                                         *)
(* The program is single-threaded: fetch_page runs to completion before a  *)
(* holder acts again.  A miss is modelled in two consecutive steps so that *)
(* the order "flush, then overwrite" inside fetch_page is visible:         *)
(*   step 1 (lines 189-198): evict, take the victim, flush it if dirty;    *)
(*   step 2 (lines 199-209): overwrite, load, register in the page table.  *)
(* While pc = "reuse" only step 2 is enabled.                              *)
(*                                                                         *)
(* Three specifications share the variables:                               *)
(*   Spec          the buffer pool manager on a file holding pages 0, 1;   *)
(*   SpecScenario  the same on a file holding pages 0, 1, 2, without I/O   *)
(*                 errors and holder writes;                               *)
(*   SpecDisk      a DiskManager called directly (open, allocate_page,     *)
(*                 read_page_data, write_page_data) on an empty file.      *)
(***************************************************************************)
EXTENDS Integers, Sequences, FiniteSets, TLC

\* ---- bounds of the model ----
PoolSize == 2       \* number of frames given to BufferPool::new
MaxUsage == 2       \* a hit is taken only while usage_count < MaxUsage
MaxHandles == 1     \* external handles alive per frame
MaxPageId == 3      \* allocate_page is called only while next_page_id < MaxPageId

Frames == 0 .. (PoolSize - 1)

\* The PageIds callers request.  The heap file holds pages 0 and 1 when it is
\* opened; page 2 is allocated but not yet written.
Pages == {0, 1, 2}
OnDisk == {0, 1}

\* Page contents are abstracted to one number per page.
ZeroPage == 0                       \* [0u8; PAGE_SIZE], also a hole of the file
OrigPage(p) == p + 1                \* what the opened heap file holds for page p
NewBytes == {10}                    \* contents holders write into a Buffer
DiskBytes == {10, 11}               \* contents direct callers give to write_page_data

VARIABLES
    heap_file,      \* DiskManager.heap_file: [len, data], len counted in pages
    buffers,        \* BufferPool.buffers: BufferId -> Frame
    next_victim_id, \* BufferPool.next_victim_id
    page_table,     \* BufferPoolManager.page_table: a function PageId -> BufferId
    handles,        \* external Rc<Buffer> clones: BufferId -> (PageId fetched -> count)
    pc,             \* "idle" between calls, "reuse" inside a miss after the flush
    call,           \* locals of the running miss: page_id, buffer_id, evict_page_id
    result,         \* what the latest operation returned (status "none": a holder's)
    io,             \* disk operations completed by the latest operation
    io_failed,      \* history: a disk operation has failed
    loaded,         \* history: the frames a page has been loaded into
    written_as,     \* history: BufferId -> the PageId under whose handle the Buffer
                    \* was last written since the pool last overwrote it ({}: none)
    scenario,       \* history: how many operations of Scenario the run has followed
    next_page_id,   \* DiskManager.next_page_id
    dm_result,      \* what the latest direct call of the DiskManager returned
    allocated,      \* history: the PageIds allocate_page has returned for this file
    dm_written      \* history: PageId -> the bytes last given to write_page_data by
                    \* a direct caller ({}: none)

dm_vars == <<next_page_id, dm_result, allocated, dm_written>>

vars == <<heap_file, buffers, next_victim_id, page_table, handles,
          pc, call, result, io, io_failed, loaded, written_as, scenario, dm_vars>>

\* ---------------------------------------------------------------- DiskManager

\* read_exact taken to succeed also on the page that starts at the end of the file.
CanReadInclusive(file, p) == p <= file.len

\* read_exact succeeds iff the whole page lies inside the file.
CanRead(file, p) == p < file.len

read_page_data(file, p) == file.data[p]

\* A write that leaves the file ending with the page written.
write_page_data_set_len(file, p, d) ==
    [len |-> p + 1,
     data |-> [file.data EXCEPT ![p] = d]]

\* seek + write_all; a write past the end extends the file, and the bytes
\* in between read as zeros.
write_page_data(file, p, d) ==
    [len |-> IF p + 1 > file.len THEN p + 1 ELSE file.len,
     data |-> [file.data EXCEPT ![p] = d]]

\* ---------------------------------------------------------------- Buffer, Frame

DefaultBuffer == [page_id |-> 0, page |-> ZeroPage, is_dirty |-> FALSE]

DefaultFrame == [usage_count |-> 0, buffer |-> DefaultBuffer]

RECURSIVE SumOver(_, _)
SumOver(f, S) ==
    IF S = {} THEN 0
    ELSE LET x == CHOOSE y \in S : TRUE IN f[x] + SumOver(f, S \ {x})

\* Rc strong count of frame b's Buffer, less the pool's own reference.
HandleCount(hs, b) == SumOver(hs[b], Pages)

\* Rc::get_mut(&mut frame.buffer).is_some()
Unpinned(hs, b) == HandleCount(hs, b) = 0

\* ---------------------------------------------------------------- BufferPool

increment_id(b) == (b + 1) % PoolSize

NoVictim == -1

\* evict without the Rc::get_mut test: every frame is given a second chance.
RECURSIVE evict_loop_no_pin_test(_, _, _, _)
evict_loop_no_pin_test(bufs, nv, cp, hs) ==
    IF bufs[nv].usage_count = 0
    THEN [victim |-> nv, buffers |-> bufs, next_victim_id |-> nv]
    ELSE evict_loop_no_pin_test([bufs EXCEPT ![nv].usage_count = @ - 1],
                                increment_id(nv), 0, hs)

\* evict decrementing usage_count before the Rc::get_mut test.
RECURSIVE evict_loop_dec_first(_, _, _, _)
evict_loop_dec_first(bufs, nv, cp, hs) ==
    IF bufs[nv].usage_count = 0
    THEN [victim |-> nv, buffers |-> bufs, next_victim_id |-> nv]
    ELSE LET dec == [bufs EXCEPT ![nv].usage_count = @ - 1] IN
         IF Unpinned(hs, nv)
         THEN evict_loop_dec_first(dec, increment_id(nv), 0, hs)
         ELSE IF cp + 1 >= PoolSize
         THEN [victim |-> NoVictim, buffers |-> dec, next_victim_id |-> nv]
         ELSE evict_loop_dec_first(dec, increment_id(nv), cp + 1, hs)

\* evict moving the cursor past the frame it returns.
RECURSIVE evict_loop_past_victim(_, _, _, _)
evict_loop_past_victim(bufs, nv, cp, hs) ==
    IF bufs[nv].usage_count = 0
    THEN [victim |-> nv, buffers |-> bufs, next_victim_id |-> increment_id(nv)]
    ELSE IF Unpinned(hs, nv)
    THEN evict_loop_past_victim([bufs EXCEPT ![nv].usage_count = @ - 1],
                                increment_id(nv), 0, hs)
    ELSE IF cp + 1 >= PoolSize
    THEN [victim |-> NoVictim, buffers |-> bufs, next_victim_id |-> nv]
    ELSE evict_loop_past_victim(bufs, increment_id(nv), cp + 1, hs)

\* evict clearing the usage_count of an unpinned frame instead of decrementing it.
RECURSIVE evict_loop_clears(_, _, _, _)
evict_loop_clears(bufs, nv, cp, hs) ==
    IF bufs[nv].usage_count = 0
    THEN [victim |-> nv, buffers |-> bufs, next_victim_id |-> nv]
    ELSE IF Unpinned(hs, nv)
    THEN evict_loop_clears([bufs EXCEPT ![nv].usage_count = 0], increment_id(nv), 0, hs)
    ELSE IF cp + 1 >= PoolSize
    THEN [victim |-> NoVictim, buffers |-> bufs, next_victim_id |-> nv]
    ELSE evict_loop_clears(bufs, increment_id(nv), cp + 1, hs)

\* evict that never resets consecutive_pinned.
RECURSIVE evict_loop_no_reset(_, _, _, _)
evict_loop_no_reset(bufs, nv, cp, hs) ==
    IF bufs[nv].usage_count = 0
    THEN [victim |-> nv, buffers |-> bufs, next_victim_id |-> nv]
    ELSE IF Unpinned(hs, nv)
    THEN evict_loop_no_reset([bufs EXCEPT ![nv].usage_count = @ - 1],
                             increment_id(nv), cp, hs)
    ELSE IF cp + 1 >= PoolSize
    THEN [victim |-> NoVictim, buffers |-> bufs, next_victim_id |-> nv]
    ELSE evict_loop_no_reset(bufs, increment_id(nv), cp + 1, hs)

\* The loop of BufferPool::evict from cursor nv with consecutive_pinned = cp.
RECURSIVE evict_loop(_, _, _, _)
evict_loop(bufs, nv, cp, hs) ==
    IF bufs[nv].usage_count = 0
    THEN [victim |-> nv, buffers |-> bufs, next_victim_id |-> nv]
    ELSE IF Unpinned(hs, nv)
    THEN evict_loop([bufs EXCEPT ![nv].usage_count = @ - 1], increment_id(nv), 0, hs)
    ELSE IF cp + 1 >= PoolSize
    THEN [victim |-> NoVictim, buffers |-> bufs, next_victim_id |-> nv]
    ELSE evict_loop(bufs, increment_id(nv), cp + 1, hs)

evict == evict_loop(buffers, next_victim_id, 0, handles)

\* ---------------------------------------------------------------- page table

Resident(p) == p \in DOMAIN page_table

Remove(t, k) == [x \in (DOMAIN t) \ {k} |-> t[x]]

Insert(t, k, v) == [x \in (DOMAIN t) \cup {k} |-> IF x = k THEN v ELSE t[x]]

\* ---------------------------------------------------------------- Init

NoCall == [page_id |-> 0, buffer_id |-> 0, evict_page_id |-> 0]

Returned(status, p, b) == [status |-> status, page_id |-> p, buffer_id |-> b]

NoResult == Returned("none", 0, 0)

\* Result of a direct DiskManager call; before the first one, that of open.
DmReturned(op, p, status, d) == [op |-> op, page_id |-> p, status |-> status, data |-> d]

\* DiskManager::open on a heap file holding the pages on_disk (a set 0 .. n-1),
\* then BufferPool::new and BufferPoolManager::new.
InitWith(on_disk) ==
    /\ heap_file = [len |-> Cardinality(on_disk),
                    data |-> [p \in Pages |-> IF p \in on_disk THEN OrigPage(p) ELSE ZeroPage]]
    /\ next_page_id = Cardinality(on_disk)
    /\ dm_result = DmReturned("open", 0, "Ok", ZeroPage)
    /\ allocated = {}
    /\ dm_written = [p \in Pages |-> {}]
    /\ scenario = 0
    /\ buffers = [b \in Frames |-> DefaultFrame]
    /\ next_victim_id = 0
    /\ page_table = << >>
    /\ handles = [b \in Frames |-> [p \in Pages |-> 0]]
    /\ pc = "idle"
    /\ call = NoCall
    /\ result = NoResult
    /\ io = << >>
    /\ io_failed = FALSE
    /\ loaded = {}
    /\ written_as = [b \in Frames |-> {}]

Init == InitWith(OnDisk)

\* ---------------------------------------------------------------- fetch_page

\* A hit that sets usage_count to 1 instead of incrementing it.
FetchHitSetsOne(p) ==
    /\ pc = "idle"
    /\ Resident(p)
    /\ LET b == page_table[p] IN
        /\ buffers[b].usage_count < MaxUsage
        /\ HandleCount(handles, b) < MaxHandles
        /\ buffers' = [buffers EXCEPT ![b].usage_count = 1]
        /\ handles' = [handles EXCEPT ![b][p] = @ + 1]
        /\ result' = Returned("Ok", p, b)
    /\ io' = << >>
    /\ UNCHANGED <<heap_file, next_victim_id, page_table, pc, call,
                   io_failed, loaded, written_as>>

\* Lines 183-187: the page is in the page table.
FetchHit(p) ==
    /\ pc = "idle"
    /\ Resident(p)
    /\ LET b == page_table[p] IN
        /\ buffers[b].usage_count < MaxUsage
        /\ HandleCount(handles, b) < MaxHandles
        /\ buffers' = [buffers EXCEPT ![b].usage_count = @ + 1]
        /\ handles' = [handles EXCEPT ![b][p] = @ + 1]
        /\ result' = Returned("Ok", p, b)
    /\ io' = << >>
    /\ UNCHANGED <<heap_file, next_victim_id, page_table, pc, call,
                   io_failed, loaded, written_as>>

\* The model follows the runs in which at most one disk operation fails.
MayFail == ~io_failed

\* Line 189: evict finds every frame pinned.
FetchNoFreeBuffer(p) ==
    /\ pc = "idle"
    /\ ~Resident(p)
    /\ LET e == evict IN
        /\ e.victim = NoVictim
        /\ buffers' = e.buffers
        /\ next_victim_id' = e.next_victim_id
    /\ result' = Returned("NoFreeBuffer", p, 0)
    /\ io' = << >>
    /\ UNCHANGED <<heap_file, page_table, handles, pc, call,
                   io_failed, loaded, written_as>>

\* Lines 189-193: the victim evict chose.  Rc::get_mut(..).unwrap() panics on a
\* pinned victim, and the program stops there.
TakeVictim(p, e) ==
    /\ buffers' = e.buffers
    /\ next_victim_id' = e.next_victim_id
    /\ call' = [page_id |-> p, buffer_id |-> e.victim,
                evict_page_id |-> e.buffers[e.victim].buffer.page_id]
    /\ result' = Returned(IF Unpinned(handles, e.victim) THEN "running" ELSE "panic", p, 0)
    /\ pc' = IF Unpinned(handles, e.victim) THEN "reuse" ELSE "panic"

\* A miss that writes the victim back whether or not it is dirty.
FetchVictimCleanWritten(p) ==
    /\ pc = "idle"
    /\ ~Resident(p)
    /\ LET e == evict IN
        /\ e.victim # NoVictim
        /\ LET buf == e.buffers[e.victim].buffer
               written == write_page_data(heap_file, buf.page_id, buf.page) IN
            /\ ~buf.is_dirty
            /\ MayFail \/ CanRead(written, p)
            /\ TakeVictim(p, e)
            /\ heap_file' = written
            /\ io' = << [op |-> "write", page_id |-> buf.page_id] >>
    /\ UNCHANGED <<page_table, handles, io_failed, loaded, written_as>>

\* Lines 189-198 with a clean victim: nothing is written.
FetchVictimClean(p) ==
    /\ pc = "idle"
    /\ ~Resident(p)
    /\ MayFail \/ CanRead(heap_file, p)
    /\ LET e == evict IN
        /\ e.victim # NoVictim
        /\ ~e.buffers[e.victim].buffer.is_dirty
        /\ TakeVictim(p, e)
    /\ io' = << >>
    /\ UNCHANGED <<heap_file, page_table, handles, io_failed, loaded, written_as>>

\* A write-back under the requested PageId instead of the victim's own.
FetchVictimFlushNewId(p) ==
    /\ pc = "idle"
    /\ ~Resident(p)
    /\ LET e == evict IN
        /\ e.victim # NoVictim
        /\ LET buf == e.buffers[e.victim].buffer
               written == write_page_data(heap_file, p, buf.page) IN
            /\ buf.is_dirty
            /\ TakeVictim(p, e)
            /\ heap_file' = written
            /\ io' = << [op |-> "write", page_id |-> p] >>
    /\ UNCHANGED <<page_table, handles, io_failed, loaded, written_as>>

\* Lines 189-198 with a dirty victim whose write-back succeeds: the bytes go to
\* the offset of the PageId the Buffer holds.
FetchVictimFlush(p) ==
    /\ pc = "idle"
    /\ ~Resident(p)
    /\ LET e == evict IN
        /\ e.victim # NoVictim
        /\ LET buf == e.buffers[e.victim].buffer
               written == write_page_data(heap_file, buf.page_id, buf.page) IN
            /\ buf.is_dirty
            /\ MayFail \/ CanRead(written, p)
            /\ TakeVictim(p, e)
            /\ IF Unpinned(handles, e.victim)
               THEN /\ heap_file' = written
                    /\ io' = << [op |-> "write", page_id |-> buf.page_id] >>
               ELSE /\ heap_file' = heap_file
                    /\ io' = << >>
    /\ UNCHANGED <<page_table, handles, io_failed, loaded, written_as>>

\* A failing write-back placed after the Buffer was renamed and marked clean.
FetchFlushFailRenamed(p) ==
    /\ pc = "idle"
    /\ ~Resident(p)
    /\ MayFail
    /\ LET e == evict IN
        /\ e.victim # NoVictim
        /\ e.buffers[e.victim].buffer.is_dirty
        /\ Unpinned(handles, e.victim)
        /\ buffers' = [e.buffers EXCEPT
                         ![e.victim].buffer = [@ EXCEPT !.page_id = p, !.is_dirty = FALSE]]
        /\ next_victim_id' = e.next_victim_id
    /\ result' = Returned("IoFlush", p, 0)
    /\ io' = << >>
    /\ io_failed' = TRUE
    /\ UNCHANGED <<heap_file, page_table, handles, pc, call, loaded, written_as>>

\* Lines 189-198 with a dirty victim whose write-back fails: `?` returns Io.
\* The failing write is taken to have left the file as it was.
FetchFlushFail(p) ==
    /\ pc = "idle"
    /\ ~Resident(p)
    /\ MayFail
    /\ LET e == evict IN
        /\ e.victim # NoVictim
        /\ e.buffers[e.victim].buffer.is_dirty
        /\ Unpinned(handles, e.victim)
        /\ buffers' = e.buffers
        /\ next_victim_id' = e.next_victim_id
    /\ result' = Returned("IoFlush", p, 0)
    /\ io' = << >>
    /\ io_failed' = TRUE
    /\ UNCHANGED <<heap_file, page_table, handles, pc, call, loaded, written_as>>

\* Lines 199-200: the victim Buffer takes the requested id, is_dirty is cleared.
Overwritten(buf, p) == [buf EXCEPT !.page_id = p, !.is_dirty = FALSE]

\* Lines 206-208: the page table update after a successful load.
UpdateTable(t, evict_page_id, p, b) == Insert(Remove(t, evict_page_id), p, b)

\* Lines 199-209, the read succeeds.
FetchLoad ==
    /\ pc = "reuse"
    /\ CanRead(heap_file, call.page_id)
    /\ LET b == call.buffer_id
           p == call.page_id IN
        /\ buffers' = [buffers EXCEPT
                         ![b].buffer = [Overwritten(@, p) EXCEPT
                                          !.page = read_page_data(heap_file, p)],
                         ![b].usage_count = 1]
        /\ handles' = [handles EXCEPT ![b][p] = @ + 1]
        /\ page_table' = UpdateTable(page_table, call.evict_page_id, p, b)
        /\ io' = Append(io, [op |-> "read", page_id |-> p])
        /\ result' = Returned("Ok", p, b)
        /\ loaded' = loaded \cup {b}
        /\ written_as' = [written_as EXCEPT ![b] = {}]
    /\ pc' = "idle"
    /\ call' = NoCall
    /\ UNCHANGED <<heap_file, next_victim_id, io_failed>>

\* The failing load of lines 199-202 with line 203 taken before the read: the
\* victim's usage_count is already 1 when the error is returned.
FetchLoadFailCounted ==
    /\ pc = "reuse"
    /\ MayFail
    /\ LET b == call.buffer_id
           p == call.page_id IN
        /\ \E d \in {buffers[b].buffer.page} \cup
                    (IF CanRead(heap_file, p) THEN {read_page_data(heap_file, p)} ELSE {}) :
              buffers' = [buffers EXCEPT
                            ![b].buffer = [Overwritten(@, p) EXCEPT !.page = d],
                            ![b].usage_count = 1]
        /\ result' = Returned("IoLoad", p, 0)
        /\ written_as' = [written_as EXCEPT ![b] = {}]
    /\ pc' = "idle"
    /\ call' = NoCall
    /\ io_failed' = TRUE
    /\ UNCHANGED <<heap_file, next_victim_id, page_table, handles, io, loaded>>

\* Lines 199-202, the read fails (the page lies past the end of the file, or the
\* device fails): `?` returns Io after the Buffer was renamed.  read_exact leaves
\* the contents of the slice unspecified on error.
FetchLoadFail ==
    /\ pc = "reuse"
    /\ MayFail
    /\ LET b == call.buffer_id
           p == call.page_id IN
        /\ \E d \in {buffers[b].buffer.page} \cup
                    (IF CanRead(heap_file, p) THEN {read_page_data(heap_file, p)} ELSE {}) :
              buffers' = [buffers EXCEPT
                            ![b].buffer = [Overwritten(@, p) EXCEPT !.page = d]]
        /\ result' = Returned("IoLoad", p, 0)
        /\ written_as' = [written_as EXCEPT ![b] = {}]
    /\ pc' = "idle"
    /\ call' = NoCall
    /\ io_failed' = TRUE
    /\ UNCHANGED <<heap_file, next_victim_id, page_table, handles, io, loaded>>

\* ---------------------------------------------------------------- handle holders

\* A holder of a handle obtained by fetch_page(p) writes the page bytes and
\* sets the modified flag (buffer.page.borrow_mut(), buffer.is_dirty.set(true)).
\* Holders that write without setting the flag are outside the model.
HolderWrite(b, p, d) ==
    /\ pc = "idle"
    /\ handles[b][p] > 0
    /\ buffers' = [buffers EXCEPT ![b].buffer.page = d, ![b].buffer.is_dirty = TRUE]
    /\ written_as' = [written_as EXCEPT ![b] = {p}]
    /\ result' = NoResult
    /\ io' = << >>
    /\ UNCHANGED <<heap_file, next_victim_id, page_table, handles, pc, call,
                   io_failed, loaded>>

\* A holder drops its handle (Rc::drop).
HolderDrop(b, p) ==
    /\ pc = "idle"
    /\ handles[b][p] > 0
    /\ handles' = [handles EXCEPT ![b][p] = @ - 1]
    /\ result' = NoResult
    /\ io' = << >>
    /\ UNCHANGED <<heap_file, buffers, next_victim_id, page_table, pc, call,
                   io_failed, loaded, written_as>>

\* ---------------------------------------------------------------- scenario

\* The calls of the worked scenario: pages A, B, C are the PageIds 0, 1, 2 that
\* allocate_page gives in order on a fresh heap file; fetch A, B, A, C with
\* each handle dropped before the next call.
Scenario == <<0, 1, 0, 2>>

\* Operations of the scenario: fetch, drop, fetch, drop, fetch, drop, fetch.
ScenarioOps == 2 * Len(Scenario) - 1

\* The run has left the scenario.
ScenarioLeft == ScenarioOps + 1

\* scenario counts the operations of the scenario completed, as long as the
\* run has done exactly these and nothing else.
Watch ==
    scenario' =
        IF scenario >= ScenarioOps THEN ScenarioLeft
        ELSE IF scenario % 2 = 0
        THEN LET p == Scenario[(scenario \div 2) + 1] IN
             IF pc' = "reuse" /\ call'.page_id = p THEN scenario
             ELSE IF pc' = "idle" /\ result'.status = "Ok" /\ result'.page_id = p
             THEN scenario + 1
             ELSE ScenarioLeft
        ELSE IF result'.status = "none" /\ handles' # handles THEN scenario + 1
        ELSE ScenarioLeft

\* ---------------------------------------------------------------- direct DiskManager calls

\* DiskManager::open on the same heap file again (a restart of the program).
DmOpen ==
    /\ next_page_id' = heap_file.len
    /\ dm_result' = DmReturned("open", 0, "Ok", ZeroPage)
    /\ UNCHANGED <<heap_file, allocated, dm_written>>

DmAllocate ==
    /\ next_page_id < MaxPageId
    /\ next_page_id' = next_page_id + 1
    /\ dm_result' = DmReturned("allocate", next_page_id, "Ok", ZeroPage)
    /\ allocated' = allocated \cup {next_page_id}
    /\ UNCHANGED <<heap_file, dm_written>>

DmWrite(p, d) ==
    /\ heap_file' = write_page_data(heap_file, p, d)
    /\ dm_written' = [dm_written EXCEPT ![p] = {d}]
    /\ dm_result' = DmReturned("write", p, "Ok", d)
    /\ UNCHANGED <<next_page_id, allocated>>

DmRead(p) ==
    /\ dm_result' = IF CanRead(heap_file, p)
                    THEN DmReturned("read", p, "Ok", read_page_data(heap_file, p))
                    ELSE DmReturned("read", p, "Io", ZeroPage)
    /\ UNCHANGED <<heap_file, next_page_id, allocated, dm_written>>

pool_vars == <<buffers, next_victim_id, page_table, handles, pc, call, result,
               io, io_failed, loaded, written_as, scenario>>

\* ---------------------------------------------------------------- specifications

\* The buffer pool manager and the holders of its handles.
Next ==
    \/ (\E p \in Pages : FetchHit(p)) /\ Watch /\ UNCHANGED dm_vars
    \/ (\E p \in Pages : FetchNoFreeBuffer(p)) /\ Watch /\ UNCHANGED dm_vars
    \/ (\E p \in Pages : FetchVictimClean(p)) /\ Watch /\ UNCHANGED dm_vars
    \/ (\E p \in Pages : FetchVictimFlush(p)) /\ Watch /\ UNCHANGED dm_vars
    \/ (\E p \in Pages : FetchFlushFail(p)) /\ Watch /\ UNCHANGED dm_vars
    \/ FetchLoad /\ Watch /\ UNCHANGED dm_vars
    \/ FetchLoadFail /\ Watch /\ UNCHANGED dm_vars
    \/ (\E b \in Frames, p \in Pages, d \in NewBytes : HolderWrite(b, p, d))
          /\ Watch /\ UNCHANGED dm_vars
    \/ (\E b \in Frames, p \in Pages : HolderDrop(b, p)) /\ Watch /\ UNCHANGED dm_vars

Spec == Init /\ [][Next]_vars

\* The same program on a heap file that holds every page of Pages, in the runs
\* where no disk operation fails and the holders only drop their handles.
InitScenario == InitWith(Pages)

NextScenario ==
    \/ (\E p \in Pages : FetchHit(p)) /\ Watch /\ UNCHANGED dm_vars
    \/ (\E p \in Pages : FetchNoFreeBuffer(p)) /\ Watch /\ UNCHANGED dm_vars
    \/ (\E p \in Pages : FetchVictimClean(p)) /\ Watch /\ UNCHANGED dm_vars
    \/ FetchLoad /\ Watch /\ UNCHANGED dm_vars
    \/ (\E b \in Frames, p \in Pages : HolderDrop(b, p)) /\ Watch /\ UNCHANGED dm_vars

SpecScenario == InitScenario /\ [][NextScenario]_vars

\* A DiskManager alone on a heap file that is empty when first opened.
InitDisk == InitWith({})

NextDisk ==
    \/ DmOpen /\ UNCHANGED pool_vars
    \/ DmAllocate /\ UNCHANGED pool_vars
    \/ (\E p \in Pages, d \in DiskBytes : DmWrite(p, d)) /\ UNCHANGED pool_vars
    \/ (\E p \in Pages : DmRead(p)) /\ UNCHANGED pool_vars

SpecDisk == InitDisk /\ [][NextDisk]_vars

\* ================================================================ claims

\* A call of fetch_page returned in this step (status "running": a miss is
\* between its two steps; "none": the step was a holder's).
Returns(status) == result'.status = status /\ pc' = "idle"

Pinned(b) == HandleCount(handles, b) > 0

\* ---------------------------------------------------------------- C1
\* C1: single cached copy.  While no disk operation has failed, between calls
\* every frame a page was loaded into is the frame the page table gives for
\* the PageId its Buffer holds: so no PageId is held by two loaded frames, and
\* a fetch_page of that PageId is a hit on that frame.  PageId 0 included.
C1_SingleCachedCopy ==
    (pc = "idle" /\ ~io_failed) =>
        \A b \in loaded :
            /\ Resident(buffers[b].buffer.page_id)
            /\ page_table[buffers[b].buffer.page_id] = b

\* ---------------------------------------------------------------- C3
\* C3: no double mapping.  In every reachable state, failed calls included, no
\* two PageIds of the page table map to the same BufferId (a PageId maps to
\* one BufferId because the table is a function).
C3_NoDoubleMapping ==
    \A p \in DOMAIN page_table : \A q \in DOMAIN page_table :
        page_table[p] = page_table[q] => p = q

\* ---------------------------------------------------------------- C4
\* C4: capacity bound.  In every reachable state, failed loads included, the
\* page table holds at most pool-size PageIds.
C4_CapacityBound == Cardinality(DOMAIN page_table) <= PoolSize

\* ---------------------------------------------------------------- C2
\* C2: a pinned page is never reclaimed.  In every reachable state a frame
\* with an external handle has usage_count >= 1 and the unwrap of line 193 has
\* not panicked; and no step of the pool changes the page_id, bytes or
\* modified flag of a Buffer that has an external handle.
C2_PinnedHasCredit ==
    /\ pc # "panic"
    /\ \A b \in Frames : Pinned(b) => buffers[b].usage_count >= 1

C2_PoolKeepsPinnedBuffer ==
    \A b \in Frames :
        (Pinned(b) /\ result'.status # "none") => buffers'[b].buffer = buffers[b].buffer

C2_PinnedNeverReclaimed == []C2_PinnedHasCredit /\ [][C2_PoolKeepsPinnedBuffer]_vars

\* A miss is reclaiming a frame while another frame is pinned.
C2_Witness ==
    /\ pc = "reuse"
    /\ \E b \in Frames : Pinned(b) /\ b # call.buffer_id

\* ---------------------------------------------------------------- C5
AllPinned ==
    \A b \in Frames : Pinned(b) /\ \E p \in DOMAIN page_table : page_table[p] = b

\* C5: exhaustion.  A fetch_page of a PageId not in the page table, called
\* when every frame holds a resident page and is pinned, returns NoFreeBuffer
\* and changes neither the page table nor any Buffer nor any usage_count, and
\* does no disk I/O.
C5_Exhaustion ==
    [][(pc = "idle" /\ AllPinned /\ result'.status # "none"
            /\ ~Resident(result'.page_id))
        => /\ Returns("NoFreeBuffer")
           /\ page_table' = page_table
           /\ buffers' = buffers
           /\ heap_file' = heap_file
           /\ io' = << >>]_vars

C5_Witness == result.status = "NoFreeBuffer" /\ AllPinned

\* ---------------------------------------------------------------- C6
\* C6: a hit avoids I/O.  A fetch_page of a PageId that is in the page table
\* returns a handle to the frame the table gives, does no disk read or write,
\* adds exactly one to that frame's usage_count and leaves the page table, the
\* cursor, the other usage_counts and every Buffer unchanged.
C6_HitAvoidsIO ==
    [][(pc = "idle" /\ result'.status # "none" /\ Resident(result'.page_id))
        => LET b == page_table[result'.page_id] IN
           /\ Returns("Ok")
           /\ result'.buffer_id = b
           /\ io' = << >>
           /\ heap_file' = heap_file
           /\ buffers' = [buffers EXCEPT ![b].usage_count = @ + 1]
           /\ page_table' = page_table
           /\ next_victim_id' = next_victim_id]_vars

\* A hit on a frame whose usage_count was already 1.
C6_Witness ==
    /\ result.status = "Ok"
    /\ io = << >>
    /\ buffers[result.buffer_id].usage_count = 2

\* ---------------------------------------------------------------- C7
IsRead(x) == x.op = "read"
IsWrite(x) == x.op = "write"

\* C7: I/O of a miss.  A miss that got a victim and met no I/O error has done
\* exactly one disk read, of the requested page, and one disk write if the
\* victim's modified flag was set, none otherwise; the victim frame then
\* holds the requested PageId, modified flag cleared, usage_count 1.
C7_MissIOCount ==
    [][(pc = "reuse" /\ Returns("Ok"))
        => LET b == call.buffer_id
               p == call.page_id IN
           /\ SelectSeq(io', IsRead) = << [op |-> "read", page_id |-> p] >>
           /\ Len(SelectSeq(io', IsWrite)) = (IF buffers[b].buffer.is_dirty THEN 1 ELSE 0)
           /\ buffers'[b].buffer.page_id = p
           /\ ~buffers'[b].buffer.is_dirty
           /\ buffers'[b].usage_count = 1]_vars

\* A miss with a dirty victim has returned.
C7_Witness == pc = "idle" /\ result.status = "Ok" /\ Len(io) = 2

\* ---------------------------------------------------------------- C8
\* C8: flush precedes overwrite.  Whenever the pool changes the page_id, the
\* modified flag or the bytes of a Buffer whose modified flag is set, the
\* running call has already written, successfully, the Buffer's bytes at the
\* PageId the Buffer held, and the file holds those bytes there.
C8_FlushPrecedesOverwrite ==
    [][\A b \in Frames :
        (buffers[b].buffer.is_dirty /\ result'.status # "none"
            /\ buffers'[b].buffer # buffers[b].buffer)
        => LET buf == buffers[b].buffer IN
           /\ io = << [op |-> "write", page_id |-> buf.page_id] >>
           /\ CanRead(heap_file, buf.page_id)
           /\ read_page_data(heap_file, buf.page_id) = buf.page]_vars

\* The flush of a dirty victim is done and its overwrite is about to happen.
C8_Witness ==
    /\ pc = "reuse"
    /\ buffers[call.buffer_id].buffer.is_dirty
    /\ Len(io) = 1

\* ---------------------------------------------------------------- C9
\* C9: dirty write-back durability.  When the pool reclaims a frame whose
\* Buffer a holder of a handle from fetch_page(A) wrote (with the modified
\* flag set), the file afterwards holds the written bytes at page A.
C9_DirtyWriteBack ==
    [][\A b \in Frames : \A A \in written_as[b] :
        (pc = "reuse" /\ call.buffer_id = b)
        => /\ CanRead(heap_file', A)
           /\ read_page_data(heap_file', A) = buffers[b].buffer.page]_vars

\* ---------------------------------------------------------------- C10
FlushFailed == Returns("IoFlush")

\* C10 as stated: a fetch_page that fails in the write-back leaves the page
\* table, every Buffer, every usage_count and the cursor unchanged.
C10_FlushFailureAtomic ==
    [][FlushFailed =>
        /\ page_table' = page_table
        /\ buffers' = buffers
        /\ next_victim_id' = next_victim_id]_vars

\* C10 amended: a fetch_page that fails in the write-back leaves the page
\* table and every Buffer's page_id, bytes and modified flag unchanged; evict
\* has run, so no usage_count has grown and that of a pinned frame is unchanged.
C10_FlushFailureKeepsBuffers ==
    [][FlushFailed =>
        /\ page_table' = page_table
        /\ \A b \in Frames :
            /\ buffers'[b].buffer = buffers[b].buffer
            /\ buffers'[b].usage_count <= buffers[b].usage_count
            /\ Pinned(b) => buffers'[b].usage_count = buffers[b].usage_count]_vars

\* A write-back has failed after evict gave second chances.
C10_Witness ==
    /\ result.status = "IoFlush"
    /\ \E b \in Frames : buffers[b].buffer.is_dirty /\ buffers[b].usage_count = 0

\* ---------------------------------------------------------------- C11
LoadFailed == pc = "reuse" /\ Returns("IoLoad")

\* C11: load-failure state.  When fetch_page(p) fails in the read of line 202
\* no handle is created, the page table is as it was before the call (both
\* steps of the miss leave it alone, so every entry that mapped to the victim
\* frame still maps to it), the victim's Buffer has page_id p and is_dirty
\* false, and the victim's usage_count is the 0 evict found, not 1.
C11_LoadFailureState ==
    [][/\ (pc = "idle" /\ pc' = "reuse") =>
            /\ page_table' = page_table
            /\ handles' = handles
       /\ LoadFailed =>
            LET b == call.buffer_id
                p == call.page_id IN
            /\ handles' = handles
            /\ page_table' = page_table
            /\ \A q \in DOMAIN page_table :
                  page_table[q] = b => (q \in DOMAIN page_table' /\ page_table'[q] = b)
            /\ buffers'[b].buffer.page_id = p
            /\ ~buffers'[b].buffer.is_dirty
            /\ buffers'[b].usage_count = buffers[b].usage_count
            /\ buffers'[b].usage_count # 1]_vars

\* A load has failed on a frame that an entry of another PageId maps to.
C11_Witness ==
    /\ result.status = "IoLoad"
    /\ \E q \in DOMAIN page_table :
          /\ q # result.page_id
          /\ buffers[page_table[q]].buffer.page_id = result.page_id
          /\ ~buffers[page_table[q]].buffer.is_dirty
          /\ buffers[page_table[q]].usage_count = 0

\* ---------------------------------------------------------------- C12
\* C12: worked scenario.  Pool of two frames, pages A, B, C = Scenario[1],
\* Scenario[2], Scenario[4] on disk, every handle dropped before the next
\* call.  fetch A and fetch B are misses (one read, no write) that load A into
\* frame 0 and B into frame 1 with usage_count 1; the second fetch A is a hit
\* on frame 0 (no disk operation) that leaves its usage_count at 2; fetch C
\* takes frame 1 as victim with one read and no write; the page table is then
\* {A -> 0, C -> 1}.
C12_WorkedScenario ==
    LET A == Scenario[1]
        B == Scenario[2]
        C == Scenario[4] IN
    /\ scenario = 1 =>
          /\ io = << [op |-> "read", page_id |-> A] >>
          /\ result.buffer_id = 0
          /\ buffers[0].buffer.page_id = A
          /\ buffers[0].usage_count = 1
    /\ scenario = 3 =>
          /\ io = << [op |-> "read", page_id |-> B] >>
          /\ result.buffer_id = 1
          /\ buffers[1].buffer.page_id = B
          /\ buffers[1].usage_count = 1
    /\ scenario = 5 =>
          /\ io = << >>
          /\ result.buffer_id = 0
          /\ buffers[0].usage_count = 2
    /\ scenario = 7 =>
          /\ io = << [op |-> "read", page_id |-> C] >>
          /\ result.buffer_id = 1
          /\ DOMAIN page_table = {A, C}
          /\ page_table[A] = 0
          /\ page_table[C] = 1

\* ---------------------------------------------------------------- C13
\* C13: disk round trip.  A read_page_data(p) after a write_page_data(p, d),
\* with no later write to p, returns d whatever other pages were written in
\* between; and a write to p leaves every other written page q readable with
\* the bytes it had.
C13_DiskRoundTrip ==
    [][/\ (dm_result'.op = "read" /\ dm_written[dm_result'.page_id] # {}) =>
            /\ dm_result'.status = "Ok"
            /\ dm_written[dm_result'.page_id] = {dm_result'.data}
       /\ dm_result'.op = "write" =>
            \A q \in Pages \ {dm_result'.page_id} :
                dm_written[q] # {} =>
                    /\ CanRead(heap_file', q)
                    /\ read_page_data(heap_file', q) = read_page_data(heap_file, q)]_vars

\* A page is read back while a lower and a higher page hold other bytes
\* written by the caller.
C13_Witness ==
    /\ dm_result.op = "read"
    /\ dm_result.status = "Ok"
    /\ dm_written[dm_result.page_id] = {dm_result.data}
    /\ \E q \in Pages, r \in Pages :
          /\ q < dm_result.page_id /\ dm_result.page_id < r
          /\ dm_written[q] # {} /\ dm_written[q] # {dm_result.data}
          /\ dm_written[r] # {} /\ dm_written[r] # {dm_result.data}

\* ---------------------------------------------------------------- C14
\* C14: reading a never-written page is an error.  On a heap file that is
\* empty when first opened, read_page_data(p) for a p that write_page_data was
\* never applied to fails with an I/O error, also when a higher-numbered page
\* has been written.
C14_ReadNeverWritten ==
    [][(dm_result'.op = "read" /\ dm_written[dm_result'.page_id] = {}) =>
            dm_result'.status = "Io"]_vars

\* C14, amended: on a heap file that is empty when first opened,
\* read_page_data(p) fails with an I/O error exactly when neither p nor any
\* higher-numbered page has been written; a never-written p below a written
\* page is read without error as zero bytes.
C14_ReadPastEndOnly ==
    [][dm_result'.op = "read" =>
            LET p == dm_result'.page_id IN
            /\ dm_result'.status = "Io" <=>
                  \A q \in Pages : q >= p => dm_written[q] = {}
            /\ (dm_result'.status = "Ok" /\ dm_written[p] = {}) =>
                  dm_result'.data = ZeroPage]_vars

\* A never-written page below a written one has been read.
C14_Witness ==
    /\ dm_result.op = "read"
    /\ dm_result.status = "Ok"
    /\ dm_written[dm_result.page_id] = {}
    /\ \E q \in Pages : q > dm_result.page_id /\ dm_written[q] # {}

\* ---------------------------------------------------------------- C15
\* C15: PageId uniqueness.  Over any sequence of open, allocate_page and
\* write_page_data on one heap file, reopening included, allocate_page never
\* returns a PageId it has returned before; it returns next_page_id, which
\* open sets to file length / PAGE_SIZE, and increases it by one; it changes
\* nothing on disk.
C15_PageIdUniqueness ==
    [][/\ dm_result'.op = "allocate" =>
            /\ dm_result'.page_id \notin allocated
            /\ dm_result'.page_id = next_page_id
            /\ next_page_id' = next_page_id + 1
            /\ heap_file' = heap_file
       /\ dm_result'.op = "open" => next_page_id' = heap_file.len]_vars

\* ---------------------------------------------------------------- C16
\* C16: the page-table update of a miss touches only the victim's slot.  A
\* successful miss that reclaims frame b for page p removes from the page
\* table at most entries that mapped to b and inserts p -> b; every entry
\* that maps to another frame is unchanged, also when b was never used.
C16_MissTouchesOnlyVictimSlot ==
    [][(pc = "reuse" /\ Returns("Ok")) =>
            LET b == call.buffer_id
                p == call.page_id IN
            /\ p \in DOMAIN page_table' /\ page_table'[p] = b
            /\ \A q \in DOMAIN page_table :
                  page_table[q] # b =>
                      (q \in DOMAIN page_table' /\ page_table'[q] = page_table[q])]_vars

\* ---------------------------------------------------------------- C17
\* evict returned a victim in this step: a miss got past line 189.
EvictFound == pc = "idle" /\ pc' = "reuse"

EvictRan == pc = "idle" /\ result'.status \in {"running", "NoFreeBuffer", "IoFlush"}

\* Frames from the cursor to b, b excluded, in scan order.
Dist(b) == (b - next_victim_id + PoolSize) % PoolSize

\* The examination (counted from 0) at which the scan finds the unpinned frame
\* b with usage_count 0: b is examined every PoolSize examinations and loses
\* one unit each time before.
SelectTime(b) == buffers[b].usage_count * PoolSize + Dist(b)

\* The examination at which the scan ends when some frame is unpinned.
EvictTime ==
    LET T == {SelectTime(b) : b \in {f \in Frames : ~Pinned(f)}} IN
    CHOOSE t \in T : \A u \in T : t <= u

\* How often the scan examines b and finds its usage_count nonzero.
Exams(b) ==
    IF \A f \in Frames : Pinned(f) THEN 0
    ELSE IF EvictTime > Dist(b) THEN ((EvictTime - Dist(b) - 1) \div PoolSize) + 1
    ELSE 0

\* C18: second chance only for unpinned frames.  In one evict, every
\* examination of an unpinned frame that finds a nonzero usage_count takes
\* exactly one from it, the usage_count of a pinned frame is not changed, and
\* no usage_count goes below zero; evict changes no Buffer.
C18_SecondChanceUnpinnedOnly ==
    [][EvictRan =>
            \A b \in Frames :
                /\ Pinned(b) => buffers'[b].usage_count = buffers[b].usage_count
                /\ ~Pinned(b) => buffers'[b].usage_count = buffers[b].usage_count - Exams(b)
                /\ buffers'[b].usage_count >= 0
                /\ buffers'[b].buffer = buffers[b].buffer]_vars

\* evict has taken a loaded frame as victim while another frame, pinned,
\* keeps the highest usage_count.
C18_Witness ==
    /\ pc = "reuse"
    /\ call.buffer_id \in loaded
    /\ buffers[call.buffer_id].usage_count = 0
    /\ \E b \in Frames \ {call.buffer_id} : Pinned(b) /\ buffers[b].usage_count = MaxUsage

\* ---------------------------------------------------------------- C19
\* C19: eviction succeeds whenever possible.  In every state between calls
\* evict terminates (its result is computed), and it returns none only if
\* every frame is pinned; a miss fails with NoFreeBuffer only when every frame
\* has an external handle, whatever the usage_counts are.
C19_EvictFindsUnpinned ==
    /\ [](pc = "idle" => (evict.victim = NoVictim => \A b \in Frames : Pinned(b)))
    /\ [][(pc = "idle" /\ result'.status = "NoFreeBuffer") =>
              \A b \in Frames : Pinned(b)]_vars

\* A miss has just succeeded on the only frame without an external handle:
\* every frame is pinned now, the others with the highest usage_count.
C19_Witness ==
    /\ result.status = "Ok"
    /\ io # << >>
    /\ \A b \in Frames : Pinned(b)
    /\ \A b \in Frames \ {result.buffer_id} : buffers[b].usage_count = MaxUsage

\* ---------------------------------------------------------------- C20
\* C20: cache coherence.  Between calls every page-table entry p -> b points
\* to a frame whose Buffer holds p, so that the handle a hit on p returns is
\* a handle to page p.
C20_CacheCoherence ==
    pc = "idle" =>
        \A p \in DOMAIN page_table : buffers[page_table[p]].buffer.page_id = p

====
